---- MODULE Spec2Model ----
(***************************************************************************)
(* DuETT on PhysioNet-2012 (src/dl4h_team_27.py): the binning dataset,     *)
(* the pretraining batch corruption (Model.pretrain_prep_batch), the       *)
(* embedding / fusion steps of Model.forward, the sizes Model.__init__     *)
(* hands to the attention stack, Model.on_load_checkpoint, the seeded      *)
(* generator behind the pretraining corruption, WarmUpCallback,            *)
(* average_models, and the loader workers that share a dataset's cache.    *)
(*                                                                         *)
(* Tensors are functions over 0-based index ranges, as in the source.  A   *)
(* time-series row has 2*NVars+1 columns: value columns 0..NVars-1, count  *)
(* columns NVars..2*NVars-1 and the trailing mask flag at 2*NVars.         *)
(* Learned maps (embedding layers, transformers) are kept symbolic: a      *)
(* cell of psi is a tag that names the map and its arguments.              *)
(*                                                                         *)
(* Left out: aug_noise (0 in every modelled configuration), the max_len    *)
(* truncation of feats_to_input (records here are shorter than max_len),   *)
(* the bin-time tensor, whose length is the record's number of bins, and   *)
(* everything after the fused representation z.                            *)
(***************************************************************************)
EXTENDS Integers, Sequences, FiniteSets, TLC

\* ---------------------------------------------------------------- bounds
NVars == 2
MaxBins == 4
MaxSteps == 3
NTimesteps == 3
MaxObs == 2
MaxTime == 3
MaxDim == 2
MaxEmbedding == 4
MaxHeads == 3
FeedLen == 2
MaxWarmup == 3
MaxDecay == 2
MaxRate == 2
MaxCalls == 6
MaxModels == 2
MaxWeight == 3
NumWorkers == 2

\* the batch holds two records
Batch == {0, 1}

\* content patterns of the generated records
Patterns == {0, 1}

VARIABLES
    pc,              \* position of the training / inference step
    cfg,             \* hyper-parameters stored by Model.__init__
    x,               \* the collated batch: x[b] is record b's (n x 2*NVars) grid
    n_timesteps,     \* feats_to_input: real bins per record
    xs_ts,           \* feats_to_input: padded tensor with the flag column
    mask_i,          \* pretrain_prep_batch: masked bin index / indices per record
    event_mask_i,    \* pretrain_prep_batch: masked event-type column per record
    keep,            \* pretrain_prep_batch: random keep matrix of feature dropout
    xs_ts_clipped,   \* pretrain_prep_batch: corrupted input
    y_ts,            \* pretrain_prep_batch: value targets
    y_ts_masks,      \* pretrain_prep_batch: presence targets / loss mask
    y_events,        \* pretrain_prep_batch: event-column value targets
    y_events_mask,   \* pretrain_prep_batch: event-column presence targets
    err,             \* exception raised by the last call, "" when none
    xs_feats,        \* forward: the time-series tensor it was passed, after the call
    psi,             \* forward: embedding tensor entering the attention stack
    z,               \* forward: fused representation
    X,               \* PhysioNetDataset.X of each split, as torchtime returns it
    use_temp_cache,  \* PhysioNetDataModule.use_temp_cache
    stats,           \* per split: means / stds set by PhysioNetDataset.setup
    temp_cache,      \* per split: PhysioNetDataset.temp_cache
    item,            \* the last PhysioNetDataset.__getitem__ call and its result
    ckpt_file,       \* the checkpoint saved at ckpt_path
    checkpoint,      \* the dict Lightning passes to Model.on_load_checkpoint
    model_state_dict,\* self.state_dict() of the model being loaded into
    requires_grad,   \* requires_grad of each named parameter of that model
    stdout,          \* the lines printed by on_load_checkpoint and freeze
    kwargs,          \* the arguments of a Model(...) call
    model,           \* what that call built: the sizes handed to the attention stack
    instances,       \* two Model instances: seed, self.rng, the prep calls made so far
    torch_rng,       \* the process-wide generator of torch.rand / torch.randn
    feed,            \* the batches every instance is fed, in order
    callback,        \* a WarmUpCallback: warmup_steps, decay, invsqrt, state
    optimizer,       \* the optimizer it drives: param_groups lr and defaults lr
    calls,           \* one entry per on_train_batch_start call made so far
    models,          \* the list handed to average_models: each model's state_dict
    returned,        \* the position in that list of the model average_models returned
    workers          \* each loader worker's own __getitem__ call: where it stands, its result

vars == <<pc, cfg, x, n_timesteps, xs_ts, mask_i, event_mask_i, keep,
          xs_ts_clipped, y_ts, y_ts_masks, y_events, y_events_mask, err, xs_feats, psi, z,
          X, use_temp_cache, stats, temp_cache, item,
          ckpt_file, checkpoint, model_state_dict, requires_grad, stdout,
          kwargs, model, instances, torch_rng, feed,
          callback, optimizer, calls, models, returned, workers>>

prepVars == <<n_timesteps, xs_ts, mask_i, event_mask_i, keep, xs_ts_clipped,
              y_ts, y_ts_masks, y_events, y_events_mask>>

dataVars == <<X, use_temp_cache, stats, temp_cache, item>>

modelVars == <<pc, cfg, x, prepVars, err, xs_feats, psi, z>>

loadVars == <<ckpt_file, checkpoint, model_state_dict, requires_grad, stdout>>

ctorVars == <<kwargs, model>>

seedVars == <<instances, torch_rng, feed>>

warmVars == <<callback, optimizer, calls>>

avgVars == <<models, returned>>

restVars == <<warmVars, avgVars, workers>>

None == "none"

\* no checkpoint is being loaded
NoLoad ==
    /\ ckpt_file = None /\ checkpoint = None /\ model_state_dict = None
    /\ requires_grad = None /\ stdout = <<>>

\* no constructor call is followed
NoCtor == kwargs = None /\ model = None

\* no seeded instances are followed
NoSeed == instances = None /\ torch_rng = None /\ feed = None

\* no warm-up callback is followed
NoWarmup == callback = None /\ optimizer = None /\ calls = <<>>

\* no list of models is being averaged
NoAverage == models = <<>> /\ returned = 0

NoRest == NoWarmup /\ NoAverage /\ workers = None

\* no __getitem__ call yet
NoItem == [split |-> "", i |-> 0, err |-> "no call", sample |-> None, bins |-> <<>>, cached |-> FALSE]

\* ------------------------------------------------------------- utilities
Clip(v, lo, hi) == IF v < lo THEN lo ELSE IF v > hi THEN hi ELSE v

Max(a, b) == IF a > b THEN a ELSE b

RECURSIVE SumTo(_, _)
\* sum of f[0] .. f[n-1]
SumTo(f, n) == IF n = 0 THEN 0 ELSE f[n - 1] + SumTo(f, n - 1)

Cols == 0..(2 * NVars)
VarIdx == 0..(NVars - 1)
FlagCol == 2 * NVars

\* number of rows of a 0-based tensor
Rows(t) == Cardinality(DOMAIN t)

\* ------------------------------------------------------ bounded inputs
\* (value, count) pairs a binned cell can hold: unobserved, observed once,
\* observed twice with a negative standardized value, observed 16 times.
CellKinds == <<[v |-> 0, c |-> 0], [v |-> 1, c |-> 1], [v |-> -1, c |-> 2], [v |-> 2, c |-> 16]>>

Cell(p, b, r, v) == CellKinds[((p + b + 2 * r + v) % Len(CellKinds)) + 1]

\* record b of content pattern p with n bins, laid out as PhysioNetDataset
\* returns x_ts: values in columns 0..NVars-1, counts in NVars..2*NVars-1
RecordGrid(p, b, n) ==
    [r \in 0..(n - 1) |->
        [c \in 0..(2 * NVars - 1) |->
            IF c < NVars THEN Cell(p, b, r, c).v ELSE Cell(p, b, r, c - NVars).c]]

\* bins per record: every record has at least one bin
Shapes == {s \in [Batch -> 1..MaxBins] : s[0] + s[1] <= MaxBins}

Batches == {[b \in Batch |-> RecordGrid(p, b, s[b])] : p \in Patterns, s \in Shapes}

\* ------------------------------------------------------ PhysioNetDataset
\* a raw cell is <<v>>, or <<>> when the value is missing (NaN)
NaN == <<>>

RECURSIVE GCD(_, _)
GCD(a, b) == IF b = 0 THEN a ELSE GCD(b, a % b)

Abs(a) == IF a < 0 THEN -a ELSE a

NaNFrac == [num |-> 0, den |-> 0]

\* the rational num/den in lowest terms, NaNFrac for a zero denominator
\* (the mean of no values, the deviation of fewer than two)
Frac(num, den) ==
    IF den = 0 THEN NaNFrac
    ELSE LET g == GCD(Abs(num), Abs(den))
             sgn == IF den < 0 THEN -1 ELSE 1
         IN [num |-> sgn * (num \div g), den |-> sgn * (den \div g)]

Splits == {"train", "val", "test"}

\* feature columns of a raw row: the time-series columns 0..NVars-1 and
\* one static column NVars (the source has 36 and 8, after the time column)
FeatIdx == 0..NVars

RawKinds == <<NaN, <<1>>, <<2>>, <<4>>>>

RawVal(p, j, f) == RawKinds[((p + j + 2 * f) % Len(RawKinds)) + 1]

\* a raw record: the rows whose time is not NaN, in torchtime's time order
RawRecord(ts, p) ==
    [obs |-> [j \in 1..Len(ts) |-> [time |-> ts[j], vals |-> [f \in FeatIdx |-> RawVal(p, j, f)]]],
     y |-> p % 2]

\* non-decreasing time stamps (minutes), zero to MaxObs of them
TimeSeqs ==
    UNION {{ts \in [1..n -> 0..MaxTime] : \A j \in 1..(n - 1) : ts[j] <= ts[j + 1]} : n \in 0..MaxObs}

SplitOffset(s) == IF s = "train" THEN 0 ELSE IF s = "val" THEN 1 ELSE 2

\* the record with every time-series value missing: its rows carry the
\* static descriptors only
StaticOnly(rec) ==
    [obs |-> [j \in 1..Len(rec.obs) |->
                [time |-> rec.obs[j].time,
                 vals |-> [f \in FeatIdx |-> IF f < NVars THEN NaN ELSE rec.obs[j].vals[f]]]],
     y |-> rec.y]

\* PhysioNet2012(split_name, ...): every split holds its own records
Worlds ==
    {[s \in Splits |->
        <<IF bare THEN StaticOnly(RawRecord(ts, p + SplitOffset(s)))
          ELSE RawRecord(ts, p + SplitOffset(s))>>] :
     ts \in TimeSeqs, p \in Patterns, bare \in BOOLEAN}

RECURSIVE SumSeq(_)
SumSeq(q) == IF q = <<>> THEN 0 ELSE Head(q) + SumSeq(Tail(q))

RECURSIVE Flatten(_)
Flatten(qq) == IF qq = <<>> THEN <<>> ELSE Head(qq) \o Flatten(Tail(qq))

\* lines 144-145: the non-NaN values of feature f over all rows of XX
FeatureVals(XX, f) ==
    LET perRec(r) == Flatten([j \in 1..Len(r.obs) |-> r.obs[j].vals[f]])
    IN Flatten([i \in 1..Len(XX) |-> perRec(XX[i])])

\* line 146: vals.mean()
Mean(vals) == Frac(SumSeq(vals), Len(vals))

\* line 147: vals.std(), kept as its square, the unbiased sample variance
\* (n * sum(x^2) - sum(x)^2) / (n * (n - 1)); NaN below two values
Std(vals) ==
    LET n == Len(vals)
        sq == [j \in 1..n |-> vals[j] * vals[j]]
    IN Frac(n * SumSeq(sq) - SumSeq(vals) * SumSeq(vals), n * (n - 1))

\* lines 142-149, over the X the dataset itself holds
SetupStats(XX) ==
    [means |-> [f \in FeatIdx |-> Mean(FeatureVals(XX, f))],
     stds |-> [f \in FeatIdx |-> Std(FeatureVals(XX, f))]]

\* lines 253-269: the datasets a stage sets up
StageSplits(stage) ==
    IF stage = None THEN {"train", "val", "test"}
    ELSE IF stage = "fit" THEN {"train", "val"}
    ELSE IF stage = "validate" THEN {"val"}
    ELSE IF stage = "test" THEN {"test"}
    ELSE {}

Stages == {None, "fit", "validate", "test"}

\* (x_i - mean) / (std + 1e-7): the difference exactly, the divisor by name
\* the float 0. is ZeroVal, whatever divisor produced it
ZeroVal == [nan |-> FALSE, diff |-> Frac(0, 1), std |-> Frac(0, 1)]
NaNVal == [nan |-> TRUE, diff |-> NaNFrac, std |-> NaNFrac]

Standardize(x_i, mean, std) ==
    IF mean = NaNFrac \/ std = NaNFrac THEN NaNVal
    ELSE IF x_i * mean.den = mean.num THEN ZeroVal
    ELSE [nan |-> FALSE, diff |-> Frac(x_i * mean.den - mean.num, mean.den), std |-> std]

\* line 169 with the clamp written for a zero last time stamp only
BinOf_ZeroOnly(t, last, T) == IF last = 0 THEN T - 1 ELSE (t * T) \div last

\* line 169, in exact arithmetic: t and last are minutes, T the bin count.
\* The source divides float32 values; for t < last the rounded quotient
\* stays below 1 and its product with T below T, so the floor is at most
\* T-1 there as well.
BinOf(t, last, T) == IF t = last THEN T - 1 ELSE (t * T) \div last

RECURSIVE FillGrid_SetOne(_, _, _, _, _)
\* lines 168-174 with the count assigned 1 instead of incremented
FillGrid_SetOne(g, obs, bn, st, j) ==
    IF j > Len(obs) THEN g
    ELSE LET o == obs[j]
             g2 == [r \in DOMAIN g |->
                      [c \in 0..(2 * NVars - 1) |->
                         IF r # bn[j] THEN g[r][c]
                         ELSE IF c < NVars
                              THEN IF o.vals[c] = NaN THEN g[r][c]
                                   ELSE Standardize(o.vals[c][1], st.means[c], st.stds[c])
                              ELSE IF o.vals[c - NVars] = NaN THEN g[r][c]
                                   ELSE 1]]
         IN FillGrid_SetOne(g2, obs, bn, st, j + 1)

RECURSIVE FillGrid(_, _, _, _, _)
\* lines 168-174: observations j..Len(obs) written into grid g in order;
\* a later observation of a type overwrites the value and adds to the count
FillGrid(g, obs, bn, st, j) ==
    IF j > Len(obs) THEN g
    ELSE LET o == obs[j]
             g2 == [r \in DOMAIN g |->
                      [c \in 0..(2 * NVars - 1) |->
                         IF r # bn[j] THEN g[r][c]
                         ELSE IF c < NVars
                              THEN IF o.vals[c] = NaN THEN g[r][c]
                                   ELSE Standardize(o.vals[c][1], st.means[c], st.stds[c])
                              ELSE IF o.vals[c - NVars] = NaN THEN g[r][c]
                                   ELSE g[r][c] + 1]]
         IN FillGrid(g2, obs, bn, st, j + 1)

\* line 181: standardized static feature, nan_to_num(0.)
Static(o, st) ==
    LET v == IF o.vals[NVars] = NaN THEN NaNVal
             ELSE Standardize(o.vals[NVars][1], st.means[NVars], st.stds[NVars])
    IN IF v.nan THEN ZeroVal ELSE v

\* lines 161-185 with one grid row and one bin end per raw row
Sample_RowPerObservation(rec, st, T) ==
    LET last == rec.obs[Len(rec.obs)].time
        n == Len(rec.obs)
        bn == [j \in 1..n |-> BinOf(rec.obs[j].time, last, T)]
        zero == [r \in 0..(n - 1) |-> [c \in 0..(2 * NVars - 1) |-> IF c < NVars THEN ZeroVal ELSE 0]]
    IN [bins |-> bn,
        x_ts |-> FillGrid(zero, rec.obs, bn, st, 1),
        x_static |-> Static(rec.obs[1], st),
        bin_ends |-> [j \in 1..n |-> Frac(j * last, n)],
        y |-> rec.y]

\* lines 161-185 for a record with at least one row
Sample(rec, st, T) ==
    LET last == rec.obs[Len(rec.obs)].time
        bn == [j \in 1..Len(rec.obs) |-> BinOf(rec.obs[j].time, last, T)]
        zero == [r \in 0..(T - 1) |-> [c \in 0..(2 * NVars - 1) |-> IF c < NVars THEN ZeroVal ELSE 0]]
    IN [bins |-> bn,
        x_ts |-> FillGrid(zero, rec.obs, bn, st, 1),
        x_static |-> Static(rec.obs[1], st),
        bin_ends |-> [j \in 1..T |-> Frac(j * last, T)],
        y |-> rec.y]

\* a dataset on which setup has not run: no X, no statistics
Unset == [means |-> <<>>, stds |-> <<>>]

InitData ==
    /\ pc = "data" /\ cfg = None /\ x = None
    /\ n_timesteps = None /\ xs_ts = None /\ mask_i = None /\ event_mask_i = None
    /\ keep = None /\ xs_ts_clipped = None /\ y_ts = None /\ y_ts_masks = None
    /\ y_events = None /\ y_events_mask = None
    /\ err = "" /\ xs_feats = None /\ psi = None /\ z = None
    /\ X \in Worlds
    /\ use_temp_cache \in BOOLEAN
    /\ stats = [s \in Splits |-> Unset]
    /\ temp_cache = [s \in Splits |-> <<>>]
    /\ item = NoItem
    /\ NoLoad
    /\ NoCtor
    /\ NoSeed
    /\ NoRest

\* PhysioNetDataModule.setup(stage), lines 253-269: each dataset of the
\* stage runs PhysioNetDataset.setup on its own split
Setup(stage) ==
    /\ pc = "data"
    /\ stats' = [s \in Splits |-> IF s \in StageSplits(stage) THEN SetupStats(X[s]) ELSE stats[s]]
    /\ UNCHANGED <<modelVars, loadVars, ctorVars, seedVars, restVars, X, use_temp_cache,
                   temp_cache, item>>

\* the record of a call: which item, the exception raised ("" when none),
\* the returned sample, the bin computed for each observation (line 169)
\* and whether the sample came from the cache
Call(s, i, e, smp, bn, hit) ==
    [split |-> s, i |-> i, err |-> e, sample |-> smp, bins |-> bn, cached |-> hit]

\* PhysioNetDataset.__getitem__(i) on the dataset of split s, lines 155-191
GetItem(s, i) ==
    /\ pc = "data"
    /\ IF use_temp_cache /\ i \in DOMAIN temp_cache[s]
       THEN /\ item' = Call(s, i, "", temp_cache[s][i], <<>>, TRUE)
            /\ UNCHANGED temp_cache
       ELSE IF stats[s] = Unset
       THEN \* self.X is set by setup only
            /\ item' = Call(s, i, "AttributeError", None, <<>>, FALSE)
            /\ UNCHANGED temp_cache
       ELSE IF X[s][i].obs = <<>>
       THEN \* time[-1] of an empty tensor
            /\ item' = Call(s, i, "IndexError", None, <<>>, FALSE)
            /\ UNCHANGED temp_cache
       ELSE LET r == Sample(X[s][i], stats[s], NTimesteps)
                smp == [x_ts |-> r.x_ts, x_static |-> r.x_static,
                        bin_ends |-> r.bin_ends, y |-> r.y]
            IN /\ item' = Call(s, i, "", smp, r.bins, FALSE)
               /\ temp_cache' = IF use_temp_cache
                                THEN [temp_cache EXCEPT ![s] = (i :> smp) @@ temp_cache[s]]
                                ELSE temp_cache
    /\ UNCHANGED <<modelVars, loadVars, ctorVars, seedVars, restVars, X, use_temp_cache, stats>>

NextData ==
    \/ \E stage \in Stages : Setup(stage)
    \/ \E s \in Splits : \E i \in DOMAIN X[s] : GetItem(s, i)

SpecData == InitData /\ [][NextData]_vars

\* ------------------------------------------------------- feats_to_input
ZeroRow == [c \in Cols |-> 0]

\* one record after line 567-571: flag column appended, rows in aug zeroed
\* and flagged (aug is the set of rows drawn by torch.rand < aug_mask)
WithFlag(f, aug) ==
    [r \in DOMAIN f |->
        IF r \in aug THEN [c \in Cols |-> IF c = FlagCol THEN 1 ELSE 0]
        ELSE [c \in Cols |-> IF c = FlagCol THEN 0 ELSE f[r][c]]]

PadTo(n) == Max(n[0], n[1])

\* F.pad(t, (0, 0, 0, pad_to - t.shape[0]))
PadRows(f, pad_to) == [r \in 0..(pad_to - 1) |-> IF r \in DOMAIN f THEN f[r] ELSE ZeroRow]

feats_to_input(xx, aug) ==
    LET n == [b \in Batch |-> Rows(xx[b])]
    IN [n_timesteps |-> n,
        xs_ts |-> [b \in Batch |-> PadRows(WithFlag(xx[b], aug[b]), PadTo(n))]]

NoAug == [b \in Batch |-> {}]

\* --------------------------------------------------- pretrain_prep_batch
\* mask_i is either a Python int (scalar) or an index array
Scalar(i) == [scalar |-> TRUE, idx |-> <<i>>]
Array(s) == [scalar |-> FALSE, idx |-> s]

Arange(n) == [j \in 1..n |-> j - 1]

\* rng.choice(np.arange(n), size=k): k draws, numpy's default replace=True
RngChoiceSize(n, k) == [1..k -> 0..(n - 1)]

\* lines 598-606
MaskChoices(n, k) ==
    IF n < 2 THEN {Scalar(n)}
    ELSE IF k > 1
         THEN IF k > n THEN {Array(Arange(n))}
              ELSE {Array(s) : s \in RngChoiceSize(n, k)}
         ELSE {Scalar(i) : i \in 0..(n - 1)}

IdxSet(m) == {m.idx[j] : j \in 1..Len(m.idx)}

\* xs_ts[batch_i, mask_i, lo:lo+NVars]: a vector for an int, a matrix for an array
Gather(t, m, lo) ==
    [scalar |-> m.scalar,
     rows |-> [j \in 1..Len(m.idx) |-> [v \in VarIdx |-> t[m.idx[j]][lo + v]]]]

\* line 611 without line 610: the masked rows are flagged, not zeroed
MaskBins_FlagOnly(t, m) ==
    [r \in DOMAIN t |->
        IF r \in IdxSet(m) THEN [c \in Cols |-> IF c = FlagCol THEN 1 ELSE t[r][c]]
        ELSE t[r]]

\* lines 610-611
MaskBins(t, m) ==
    [r \in DOMAIN t |->
        IF r \in IdxSet(m) THEN [c \in Cols |-> IF c = FlagCol THEN 1 ELSE 0]
        ELSE t[r]]

\* lines 617-618
MaskEvent(t, e) ==
    [r \in DOMAIN t |->
        [c \in Cols |-> IF c = e THEN 0 ELSE IF c = e + NVars THEN -1 ELSE t[r][c]]]

\* .clip(0, 1) of a gathered block
ClipBlock(g) ==
    [scalar |-> g.scalar,
     rows |-> [j \in DOMAIN g.rows |-> [v \in VarIdx |-> Clip(g.rows[j][v], 0, 1)]]]

\* torch.stack needs equal shapes
Stackable(g) ==
    \A a, b \in Batch : g[a].scalar = g[b].scalar /\ Len(g[a].rows) = Len(g[b].rows)

\* lines 630-633 with the target test inverted: targets always kept
KeepOr_ProtectTargets(m, kp) ==
    LET tgt(v) == IF m.scalar THEN m.rows[1][v]
                  ELSE Clip(SumTo([j \in 0..(Len(m.rows) - 1) |-> m.rows[j + 1][v]], Len(m.rows)), 0, 1)
    IN [v \in VarIdx |-> (tgt(v) # 0) \/ kp[v]]

\* lines 630-633: the per-record, per-variable keep flag
\* ndim > 2 : 1 - y_ts_masks.sum(dim=1).clip(0, 1);  else 1 - y_ts_masks
KeepOr(m, kp) ==
    LET tgt(v) == IF m.scalar THEN m.rows[1][v]
                  ELSE Clip(SumTo([j \in 0..(Len(m.rows) - 1) |-> m.rows[j + 1][v]], Len(m.rows)), 0, 1)
    IN [v \in VarIdx |-> (1 - tgt(v) # 0) \/ kp[v]]

\* line 634: keep.tile(1, 2) followed by a column of ones
KeepCols(kv) == [c \in Cols |-> IF c = FlagCol THEN TRUE ELSE kv[c % NVars]]

\* line 635 without the "== -1" exemption
Dropout_NoSentinelGuard(t, kc) ==
    [r \in DOMAIN t |-> [c \in Cols |-> IF kc[c] THEN t[r][c] ELSE 0]]

\* line 635: xs_ts_clipped *= logical_or(keep.unsqueeze(1), xs_ts_clipped == -1)
Dropout(t, kc) ==
    [r \in DOMAIN t |-> [c \in Cols |-> IF kc[c] \/ t[r][c] = -1 THEN t[r][c] ELSE 0]]

FusionMethods == {"rep_token", "masked_embed", "averaging"}

\* the hyper-parameters the modelled code reads; pretrain_dropout and
\* aug_mask stand for "> 0", training for nn.Module.training
Configs ==
    [pretrain_masked_steps : 1..MaxSteps, predict_events : BOOLEAN,
     pretrain_dropout : BOOLEAN, fusion_method : FusionMethods,
     pretrain : BOOLEAN, aug_mask : BOOLEAN, training : BOOLEAN]

\* pretraining runs use the constructor's default fusion, masked_embed
PretrainConfigs ==
    {c \in Configs : c.pretrain /\ c.training /\ ~c.aug_mask
                      /\ c.fusion_method = "masked_embed"}

InitModel(c, xx) ==
    /\ pc = "ready"
    /\ cfg = c
    /\ x = xx
    /\ n_timesteps = None /\ xs_ts = None /\ mask_i = None /\ event_mask_i = None
    /\ keep = None /\ xs_ts_clipped = None /\ y_ts = None /\ y_ts_masks = None
    /\ y_events = None /\ y_events_mask = None
    /\ err = "" /\ xs_feats = None /\ psi = None /\ z = None
    /\ X = None /\ use_temp_cache = FALSE /\ stats = None /\ temp_cache = None
    /\ item = NoItem
    /\ NoLoad
    /\ NoCtor
    /\ NoSeed
    /\ NoRest

InitPretrain == \E c \in PretrainConfigs, xx \in Batches : InitModel(c, xx)

\* the call raises: nothing is returned
PrepFails(e) ==
    /\ err' = e /\ pc' = "failed"
    /\ UNCHANGED <<mask_i, event_mask_i, keep, xs_ts_clipped, y_ts,
                   y_ts_masks, y_events, y_events_mask>>

\* lines 607-636 for the drawn mask indices mi, event columns ev and keep
\* matrix kp
PrepReturns(t, mi, ev, kp) ==
    LET yv == [b \in Batch |-> Gather(t[b], mi[b], 0)]
        yn == [b \in Batch |-> Gather(t[b], mi[b], NVars)]
        ym == [b \in Batch |-> ClipBlock(yn[b])]
        masked == [b \in Batch |-> MaskBins(t[b], mi[b])]
        evmasked == [b \in Batch |->
                        IF cfg.predict_events THEN MaskEvent(masked[b], ev[b])
                        ELSE masked[b]]
        dropped == [b \in Batch |->
                        IF cfg.pretrain_dropout
                        THEN Dropout(evmasked[b], KeepCols(KeepOr(ym[b], kp[b])))
                        ELSE evmasked[b]]
    IN /\ err' = "" /\ pc' = "prepped"
       /\ mask_i' = mi
       /\ event_mask_i' = ev
       /\ keep' = kp
       /\ xs_ts_clipped' = dropped
       /\ y_ts' = yv
       /\ y_ts_masks' = ym
       /\ y_events' = [b \in Batch |->
                        IF cfg.predict_events
                        THEN [r \in DOMAIN t[b] |-> t[b][r][ev[b]]]
                        ELSE <<>>]
       /\ y_events_mask' = [b \in Batch |->
                        IF cfg.predict_events
                        THEN [r \in DOMAIN t[b] |-> Clip(t[b][r][ev[b] + NVars], 0, 1)]
                        ELSE <<>>]

\* Model.pretrain_prep_batch, lines 587-636
PretrainPrepBatch ==
    /\ pc = "ready" /\ cfg.pretrain
    /\ LET inp == feats_to_input(x, NoAug)
           n == inp.n_timesteps
           t == inp.xs_ts
           n_steps == PadTo(n)
           k == cfg.pretrain_masked_steps
       IN /\ n_timesteps' = n
          /\ xs_ts' = t
          /\ \E m0 \in MaskChoices(n[0], k), m1 \in MaskChoices(n[1], k) :
               LET mi == [b \in Batch |-> IF b = 0 THEN m0 ELSE m1]
               IN IF \E b \in Batch : \E i \in IdxSet(mi[b]) : i >= n_steps
                  THEN \* row mask_i of a tensor with n_steps rows
                       PrepFails("IndexError")
                  ELSE IF ~Stackable([b \in Batch |-> Gather(t[b], mi[b], 0)])
                  THEN \* torch.stack of targets of different shapes
                       PrepFails("RuntimeError")
                  ELSE \E ev \in [Batch -> IF cfg.predict_events THEN VarIdx ELSE {-1}],
                          kp \in [Batch -> [VarIdx -> IF cfg.pretrain_dropout THEN BOOLEAN ELSE {TRUE}]] :
                            PrepReturns(t, mi, ev, kp)
    /\ UNCHANGED <<cfg, x, xs_feats, psi, z, dataVars, loadVars, ctorVars, seedVars, restVars>>

\* ---------------------------------------------------------------- forward
\* special_embeddings rows MASKED_EMBEDDING_KEY = 0, REPRESENTATION_EMBEDDING_KEY = 1
MASK == [special |-> 0]
REPRESENTATION == [special |-> 1]

\* nn.Embedding(16, 1)
NumObsEmbeddings == 16

\* line 657 with the upper clip only
NObsInd_UpperOnly(c) == IF c > NumObsEmbeddings - 1 THEN NumObsEmbeddings - 1 ELSE c

\* line 657: .to(int).clip(0, num_embeddings - 1)
NObsInd(c) == Clip(c, 0, NumObsEmbeddings - 1)

\* rows of psi: the bins of the padded tensor plus the synthetic row
PsiRows(t) == 0..Rows(t)
PsiCols == 0..NVars

\* lines 652-654 with an all-FALSE extra row instead of the copy of row 0
EventMaskInds_NoExtraRow(t) ==
    [r \in PsiRows(t) |->
        [c \in PsiCols |-> r < Rows(t) /\ c < NVars /\ t[r][NVars + c] = -1]]

\* lines 652-654: sentinel cells, a FALSE static column, then row 0 repeated
\* as the extra last row
EventMaskInds(t) ==
    LET body == [r \in DOMAIN t |-> [c \in PsiCols |-> c < NVars /\ t[r][NVars + c] = -1]]
    IN [r \in PsiRows(t) |-> IF r < Rows(t) THEN body[r] ELSE body[0]]

\* line 681: flag == 1, and FALSE for the synthetic row
MaskInds(t) == [r \in PsiRows(t) |-> r < Rows(t) /\ t[r][FlagCol] = 1]

\* lines 663-678: event-type projectors, static projector, REPRESENTATION row
Embed(b, t) ==
    [r \in PsiRows(t) |->
        [c \in PsiCols |->
            IF r = Rows(t) THEN REPRESENTATION
            ELSE IF c = NVars THEN [tab_encoder |-> b]
            ELSE [el |-> c, value |-> t[r][c], n_obs |-> NObsInd(t[r][NVars + c])]]]

\* line 684 written as psi[mask_inds, :-1, :]: the static column is spared
OverwriteRows_SpareStatic(p, mi) ==
    [r \in DOMAIN p |-> [c \in PsiCols |-> IF mi[r] /\ c < NVars THEN MASK ELSE p[r][c]]]

\* line 684: psi[mask_inds, :, :] = MASK
OverwriteRows(p, mi) ==
    [r \in DOMAIN p |-> [c \in PsiCols |-> IF mi[r] THEN MASK ELSE p[r][c]]]

\* line 688 left out
OverwriteCells_Skip(p, ei, on) == p

\* line 688: psi[event_mask_inds, :] = MASK, only with predict_events
OverwriteCells(p, ei, on) ==
    [r \in DOMAIN p |-> [c \in PsiCols |-> IF on /\ ei[r][c] THEN MASK ELSE p[r][c]]]

Psi(b, t, c) ==
    OverwriteCells(OverwriteRows(Embed(b, t), MaskInds(t)), EventMaskInds(t), c.predict_events)

\* a cell of the tensor after the call: the float it held before
Float(v) == [float |-> v]

\* line 660: the count columns of the caller's tensor are overwritten in
\* place with their n_obs_embedding outputs (learned weights, which are not
\* the counts they replace); no other cell is assigned
AfterForward(t) ==
    [r \in DOMAIN t |->
        [c \in Cols |->
            IF c >= NVars /\ c < 2 * NVars THEN [n_obs_embedding |-> NObsInd(t[r][c])]
            ELSE Float(t[r][c])]]

\* row r of record b after the attention stack, flattened (line 706)
Transformed(b, r) == [rec |-> b, row |-> r]
ZeroVec == [rec |-> -1, row |-> -1]

RECURSIVE SelectRows(_, _, _, _)
\* the rows r in lo..hi-1 of record b for which sel[r], in ascending order
SelectRows(b, sel, lo, hi) ==
    IF lo >= hi THEN <<>>
    ELSE (IF sel[lo] THEN <<Transformed(b, lo)>> ELSE <<>>) \o SelectRows(b, sel, lo + 1, hi)

\* F.pad(rows, (0, 0, 0, k - len), value=0.): a negative amount crops the end
PadGather(s, k) ==
    IF Len(s) >= k THEN SubSeq(s, 1, k)
    ELSE s \o [j \in 1..(k - Len(s)) |-> ZeroVec]

\* lines 713-717
MultiStepGather(b, t, k) ==
    PadGather(SelectRows(b, [r \in DOMAIN t |-> t[r][FlagCol] > 0], 0, Rows(t)), k)

\* lines 719-722: one record's rows whose flag equals 1
SingleStepGather(b, t) ==
    SelectRows(b, [r \in DOMAIN t |-> t[r][FlagCol] = 1], 0, Rows(t))

\* line 725: the rows of transformed[:, :-1, :] the mean runs over
MeanRows(b, t) == SelectRows(b, [r \in DOMAIN t |-> TRUE], 0, Rows(t))

\* z_ts: entries along the leading axis.  An entry lists the transformed
\* rows it is made of: the row itself ("vector"), the stacked rows
\* ("stack") or the rows averaged ("mean").  squeezed: torch.squeeze of
\* line 723 removed a leading axis of size one.
Fused(kind, entries, squeezed) == [kind |-> kind, rows |-> entries, squeezed |-> squeezed]

\* lines 709-728
Fuse(t, c) ==
    IF c.fusion_method = "rep_token"
    THEN Fused("vector", <<<<Transformed(0, Rows(t[0]))>>, <<Transformed(1, Rows(t[1]))>>>>, FALSE)
    ELSE IF c.fusion_method = "masked_embed"
    THEN IF c.pretrain_masked_steps > 1
         THEN Fused("stack", <<MultiStepGather(0, t[0], c.pretrain_masked_steps),
                               MultiStepGather(1, t[1], c.pretrain_masked_steps)>>, FALSE)
         ELSE LET cat == SingleStepGather(0, t[0]) \o SingleStepGather(1, t[1])
              IN Fused("vector", [j \in 1..Len(cat) |-> <<cat[j]>>], Len(cat) = 1)
    ELSE Fused("mean", <<MeanRows(0, t[0]), MeanRows(1, t[1])>>, FALSE)

\* Model.forward up to the fused representation z, lines 638-732, called
\* on the corrupted batch (training_step line 774) or on feats_to_input's
\* output (line 801)
Forward ==
    /\ pc \in {"prepped", "input"}
    /\ LET t == IF pc = "prepped" THEN xs_ts_clipped ELSE xs_ts
       IN /\ psi' = [b \in Batch |-> Psi(b, t[b], cfg)]
          /\ xs_feats' = [b \in Batch |-> AfterForward(t[b])]
          /\ z' = Fuse(t, cfg)
    /\ pc' = "forwarded"
    /\ UNCHANGED <<cfg, x, prepVars, err, dataVars, loadVars, ctorVars, seedVars, restVars>>

\* fine-tuning and inference: no pretraining corruption
FinetuneConfigs == {c \in Configs : ~c.pretrain /\ ~c.pretrain_dropout}

InitFinetune == \E c \in FinetuneConfigs, xx \in Batches : InitModel(c, xx)

\* Model.feats_to_input as called by the supervised steps (line 801):
\* aug_mask flags a random set of real rows while training (lines 568-571)
FeatsToInput ==
    /\ pc = "ready" /\ ~cfg.pretrain
    /\ \E aug \in [Batch -> SUBSET (0..(MaxBins - 1))] :
         /\ \A b \in Batch :
              aug[b] \subseteq (IF cfg.training /\ cfg.aug_mask THEN DOMAIN x[b] ELSE {})
         /\ n_timesteps' = feats_to_input(x, aug).n_timesteps
         /\ xs_ts' = feats_to_input(x, aug).xs_ts
    /\ pc' = "input"
    /\ UNCHANGED <<cfg, x, mask_i, event_mask_i, keep, xs_ts_clipped, y_ts, y_ts_masks,
                   y_events, y_events_mask, err, xs_feats, psi, z, dataVars, loadVars, ctorVars, seedVars, restVars>>

NextPretrain == PretrainPrepBatch \/ Forward

NextFinetune == FeatsToInput \/ Forward

SpecFinetune == InitFinetune /\ [][NextFinetune]_vars


SpecPretrain == InitPretrain /\ [][NextPretrain]_vars

\* --------------------------------------------------- on_load_checkpoint
\* state_dict keys, in the order Model.__init__ registers their modules
\* (lines 496, 510, 517)
KeySeq == <<[module |-> "head", leaf |-> "weight"],
            [module |-> "predict_events_proj", leaf |-> "weight"],
            [module |-> "tab_encoder", leaf |-> "weight"]>>

Keys == {KeySeq[j] : j \in 1..Len(KeySeq)}

\* line 934: k.startswith('head')
StartsWithHead(k) == k.module = "head"

\* line 956: "head" in n
ContainsHead(n) == n.module = "head"

\* a tensor: its shape (one dimension stands for the tuple) and its content,
\* named by where it comes from
Tensor(owner, k, d) == [shape |-> d, data |-> [owner |-> owner, key |-> k]]

\* the state_dict of a model: predict_events_proj exists with predict_events
\* only (lines 509-510)
ModelKeySets == {Keys, Keys \ {KeySeq[2]}}

StateDicts(owner, ks) ==
    {[k \in ks |-> Tensor(owner, k, d[k])] : d \in [ks -> 1..MaxDim]}

\* Model.load_from_checkpoint (line 1114): a freshly constructed model, every
\* parameter trainable, and the dict read from ckpt_path
InitLoad ==
    /\ pc = "loading"
    /\ cfg \in [freeze_encoder : BOOLEAN]
    /\ x = None
    /\ n_timesteps = None /\ xs_ts = None /\ mask_i = None /\ event_mask_i = None
    /\ keep = None /\ xs_ts_clipped = None /\ y_ts = None /\ y_ts_masks = None
    /\ y_events = None /\ y_events_mask = None
    /\ err = "" /\ xs_feats = None /\ psi = None /\ z = None
    /\ X = None /\ use_temp_cache = FALSE /\ stats = None /\ temp_cache = None
    /\ item = NoItem
    /\ \E mk \in ModelKeySets : model_state_dict \in StateDicts("model", mk)
    /\ \E ck \in SUBSET Keys :
         ckpt_file \in [state_dict : StateDicts("ckpt", ck), optimizer_states : BOOLEAN]
    /\ checkpoint = ckpt_file
    /\ requires_grad = [k \in DOMAIN model_state_dict |-> TRUE]
    /\ stdout = <<>>
    /\ NoCtor
    /\ NoSeed
    /\ NoRest

\* lines 926-929: keys of the model missing from the checkpoint are added
AddMissing(sd, msd) ==
    [k \in DOMAIN sd \cup DOMAIN msd |-> IF k \in DOMAIN sd THEN sd[k] ELSE msd[k]]

\* line 934 without the startswith('head') test
HeadMismatch_AnyKey(sd, msd, k) ==
    k \in DOMAIN msd /\ sd[k].shape # msd[k].shape

\* line 934: a head entry whose saved shape differs from the model's
HeadMismatch(sd, msd, k) ==
    k \in DOMAIN msd /\ StartsWithHead(k) /\ sd[k].shape # msd[k].shape

\* lines 932-942: mismatched head entries take the model's value; an entry
\* the model does not have is reported and left where it is
FixShapes(sd, msd) ==
    [k \in DOMAIN sd |-> IF HeadMismatch(sd, msd, k) THEN msd[k] ELSE sd[k]]

RECURSIVE LoadLines(_, _, _)
\* the lines the loop of lines 932-942 prints for the keys j.. of KeySeq
LoadLines(sd, msd, j) ==
    IF j > Len(KeySeq) THEN <<>>
    ELSE LET k == KeySeq[j]
             line == IF k \notin DOMAIN sd THEN <<>>
                     ELSE IF k \notin DOMAIN msd THEN <<[msg |-> "Dropping parameter", key |-> k]>>
                     ELSE IF HeadMismatch(sd, msd, k)
                          THEN <<[msg |-> "Skip loading parameter", key |-> k]>>
                          ELSE <<>>
         IN line \o LoadLines(sd, msd, j + 1)

RECURSIVE FreezeLines(_, _)
\* the lines freeze prints for the parameters j.. (lines 953-959)
FreezeLines(rg, j) ==
    IF j > Len(KeySeq) THEN <<>>
    ELSE (IF KeySeq[j] \in DOMAIN rg /\ ContainsHead(KeySeq[j])
          THEN <<[msg |-> "Skip freezing:", key |-> KeySeq[j]]>> ELSE <<>>)
         \o FreezeLines(rg, j + 1)

\* lines 953-959 without the "head" test: every parameter is frozen
Freeze_All(rg) == [n \in DOMAIN rg |-> FALSE]

\* Model.freeze, lines 953-959
Freeze(rg) == [n \in DOMAIN rg |-> IF ~ContainsHead(n) THEN FALSE ELSE rg[n]]

Line(msg) == [msg |-> msg, key |-> [module |-> "", leaf |-> ""]]

\* Model.on_load_checkpoint(checkpoint), lines 919-950
OnLoadCheckpoint ==
    /\ pc = "loading"
    /\ LET sd0 == checkpoint.state_dict
           msd == model_state_dict
           sd1 == AddMissing(sd0, msd)
           lines == LoadLines(sd1, msd, 1)
           is_changed == (DOMAIN sd1 # DOMAIN sd0) \/ lines # <<>>
       IN /\ checkpoint' = [state_dict |-> FixShapes(sd1, msd),
                            optimizer_states |-> checkpoint.optimizer_states /\ ~is_changed]
          /\ requires_grad' = IF cfg.freeze_encoder THEN Freeze(requires_grad) ELSE requires_grad
          /\ stdout' = <<Line("Loading from checkpoint")>> \o lines
                        \o (IF cfg.freeze_encoder
                            THEN <<Line("Freezing")>> \o FreezeLines(requires_grad, 1)
                            ELSE <<>>)
    /\ pc' = "loaded"
    /\ UNCHANGED <<cfg, x, prepVars, err, xs_feats, psi, z, dataVars, ckpt_file, model_state_dict,
                   ctorVars, seedVars, restVars>>

NextLoad == OnLoadCheckpoint

SpecLoad == InitLoad /\ [][NextLoad]_vars

\* --------------------------------------------------------- Model.__init__
\* the default d_feedforward (line 411)
DefaultFeedforward == 512

\* the constructor arguments the attention stack is built from; d_feedforward
\* is <<>> for None
Kwargs ==
    [d_embedding : 1..MaxEmbedding, n_transformer_head : 1..MaxHeads,
     masked_transform_timesteps : 1..NTimesteps, d_time_series_num : {NVars},
     d_feedforward : {<<>>, <<DefaultFeedforward>>}]

InitCtor ==
    /\ pc = "new"
    /\ cfg = None /\ x = None
    /\ n_timesteps = None /\ xs_ts = None /\ mask_i = None /\ event_mask_i = None
    /\ keep = None /\ xs_ts_clipped = None /\ y_ts = None /\ y_ts_masks = None
    /\ y_events = None /\ y_events_mask = None
    /\ err = "" /\ xs_feats = None /\ psi = None /\ z = None
    /\ X = None /\ use_temp_cache = FALSE /\ stats = None /\ temp_cache = None
    /\ item = NoItem
    /\ NoLoad
    /\ kwargs \in Kwargs
    /\ model = None
    /\ NoSeed
    /\ NoRest

\* lines 462-463
Feedforward(kw) ==
    IF kw.d_feedforward = <<>> THEN kw.d_embedding * 4 ELSE kw.d_feedforward[1]

\* lines 466-484: the sizes x_transformers.Encoder is called with
EncoderArgs(kw) ==
    LET et_dim == kw.d_embedding * (kw.masked_transform_timesteps + 1)
        tt_dim == kw.d_embedding * (kw.d_time_series_num + 1)
    IN [et_dim |-> et_dim, tt_dim |-> tt_dim,
        heads |-> kw.n_transformer_head,
        attn_dim_head |-> kw.d_embedding \div kw.n_transformer_head,
        et_ff_mult |-> Frac(Feedforward(kw), et_dim),
        tt_ff_mult |-> Frac(Feedforward(kw), tt_dim)]

\* Model.__init__, lines 409-533, as far as the attention stack goes.  No
\* line of it tests d_embedding against n_transformer_head.  The Encoder
\* projects dim to heads * attn_dim_head whatever the two are; only a head
\* width of 0 stops it, where the attention scale attn_dim_head ** -0.5
\* divides by zero.
ModelInit ==
    /\ pc = "new"
    /\ LET a == EncoderArgs(kwargs)
       IN IF a.attn_dim_head = 0
          THEN /\ pc' = "failed" /\ err' = "ZeroDivisionError" /\ model' = None
          ELSE /\ pc' = "constructed" /\ err' = "" /\ model' = a
    /\ UNCHANGED <<cfg, x, prepVars, xs_feats, psi, z, dataVars, loadVars, kwargs, seedVars, restVars>>

NextCtor == ModelInit

SpecCtor == InitCtor /\ [][NextCtor]_vars

\* ------------------------------------------------- the seeded generator
\* A generator is a state; a draw reads the state and advances it.  The
\* stream below stands for numpy's: what matters is that a draw is a function
\* of the state alone.
RngStates == 0..7

\* np.random.default_rng(seed), line 434
DefaultRng(seed) == seed % Cardinality(RngStates)

Advance(s) == (5 * s + 3) % Cardinality(RngStates)

RECURSIVE After(_, _)
\* the state after cnt draws
After(s, cnt) == IF cnt = 0 THEN s ELSE After(Advance(s), cnt - 1)

\* rng.choice(np.arange(n)) read off state s
Integers(s, n) == s % n

\* rng.random() > pretrain_dropout read off state s
Random(s) == 2 * s >= Cardinality(RngStates)

\* lines 598-606 with the instance's generator in state s: the mask and
\* the state the generator is left in
SeededMask(n, k, s) ==
    IF n < 2 THEN [m |-> Scalar(n), rng |-> s]
    ELSE IF k > 1
         THEN IF k > n THEN [m |-> Array(Arange(n)), rng |-> s]
              ELSE [m |-> Array([j \in 1..k |-> Integers(After(s, j - 1), n)]),
                    rng |-> After(s, k)]
         ELSE [m |-> Scalar(Integers(s, n)), rng |-> Advance(s)]

RECURSIVE SeededLoop(_, _, _, _, _, _)
\* the loop of lines 597-618 from record b on
SeededLoop(c, n, b, s, masks, events) ==
    IF b \notin Batch THEN [masks |-> masks, events |-> events, rng |-> s]
    ELSE LET sm == SeededMask(n[b], c.pretrain_masked_steps, s)
         IN IF c.predict_events
            THEN SeededLoop(c, n, b + 1, Advance(sm.rng), Append(masks, sm.m),
                            Append(events, Integers(sm.rng, NVars)))
            ELSE SeededLoop(c, n, b + 1, sm.rng, Append(masks, sm.m), events)

\* line 627 with every draw taken from the process-wide generator
KeepDraws_FromGlobal(own, glob, cnt) ==
    [vals |-> [j \in 1..cnt |-> Random(After(glob, j - 1))],
     own |-> own, glob |-> After(glob, cnt)]

\* line 627: self.rng.random((batch_size, n_vars)) > pretrain_dropout;
\* own is self.rng, glob the process-wide generator
KeepDraws(own, glob, cnt) ==
    [vals |-> [j \in 1..cnt |-> Random(After(own, j - 1))],
     own |-> After(own, cnt), glob |-> glob]

\* the random choices of one pretrain_prep_batch call (lines 587-636) on a
\* batch with n real bins per record, the exception it ends in, and the
\* generators afterwards.  feats_to_input draws nothing: its torch.rand /
\* torch.randn calls stand behind "not self.pretrain" (lines 565, 568, 582).
SeededPrep(c, n, s, glob) ==
    IF PadTo(n) < 2
    THEN \* row 1 of a one-row tensor, at the first record
         [err |-> "IndexError", mask_i |-> <<>>, event_mask_i |-> <<>>, keep |-> <<>>,
          rng |-> s, torch_rng |-> glob]
    ELSE LET l == SeededLoop(c, n, 0, s, <<>>, <<>>)
             g == [b \in Batch |-> [scalar |-> l.masks[b + 1].scalar, rows |-> l.masks[b + 1].idx]]
         IN IF ~Stackable(g)
            THEN [err |-> "RuntimeError", mask_i |-> l.masks, event_mask_i |-> l.events,
                  keep |-> <<>>, rng |-> l.rng, torch_rng |-> glob]
            ELSE IF c.pretrain_dropout
            THEN LET kd == KeepDraws(l.rng, glob, Cardinality(Batch) * NVars)
                 IN [err |-> "", mask_i |-> l.masks, event_mask_i |-> l.events,
                     keep |-> kd.vals, rng |-> kd.own, torch_rng |-> kd.glob]
            ELSE [err |-> "", mask_i |-> l.masks, event_mask_i |-> l.events,
                  keep |-> <<>>, rng |-> l.rng, torch_rng |-> glob]

Instances == {1, 2}

Seeds == {0, 1}

\* pl.seed_everything(seed), lines 1162-1163
GlobalSeed == 2020

\* two models constructed from the same hyper-parameters, each with its own
\* seed, in one process
InitSeed ==
    /\ pc = "seeded"
    /\ cfg \in PretrainConfigs
    /\ x = None
    /\ n_timesteps = None /\ xs_ts = None /\ mask_i = None /\ event_mask_i = None
    /\ keep = None /\ xs_ts_clipped = None /\ y_ts = None /\ y_ts_masks = None
    /\ y_events = None /\ y_events_mask = None
    /\ err = "" /\ xs_feats = None /\ psi = None /\ z = None
    /\ X = None /\ use_temp_cache = FALSE /\ stats = None /\ temp_cache = None
    /\ item = NoItem
    /\ NoLoad
    /\ NoCtor
    /\ NoRest
    /\ \E sd \in [Instances -> Seeds] :
         instances = [i \in Instances |-> [seed |-> sd[i], rng |-> DefaultRng(sd[i]), calls |-> <<>>]]
    /\ torch_rng = DefaultRng(GlobalSeed)
    /\ feed \in [1..FeedLen -> Shapes]

\* instance i runs pretrain_prep_batch on its next batch (training_step,
\* line 773); the instances take their steps in any order
SeededPrepBatch(i) ==
    /\ pc = "seeded"
    /\ Len(instances[i].calls) < Len(feed)
    /\ LET r == SeededPrep(cfg, feed[Len(instances[i].calls) + 1], instances[i].rng, torch_rng)
           call == [err |-> r.err, mask_i |-> r.mask_i, event_mask_i |-> r.event_mask_i,
                    keep |-> r.keep]
       IN /\ instances' = [instances EXCEPT ![i].rng = r.rng,
                                            ![i].calls = Append(@, call)]
          /\ torch_rng' = r.torch_rng
    /\ UNCHANGED <<modelVars, dataVars, loadVars, ctorVars, feed, restVars>>

NextSeed == \E i \in Instances : SeededPrepBatch(i)

SpecSeed == InitSeed /\ [][NextSeed]_vars

\* ------------------------------------------------------- WarmUpCallback
\* An optional argument is <<>> when left at None and <<v>> when given.
\* A learning rate is kept exactly as base * sqrt(sq.num / sq.den), the
\* form every rate of lines 1040 and 1051 has.
Rate(v) == [base |-> v, sq |-> Frac(1, 1)]

\* lr scaled by a factor whose square is f
Times(f, lr) == [base |-> lr.base, sq |-> Frac(f.num * lr.sq.num, f.den * lr.sq.den)]

\* steps / warmup_steps (line 1040), squared
LinearFactor(s, W) == Frac(s * s, W * W)

\* (decay / (steps - warmup_steps + decay)) ** 0.5 (line 1051), squared
InvSqrtFactor_NoOffset(decay, s, W) == Frac(decay, s + decay)
InvSqrtFactor(decay, s, W) == Frac(decay, s - W + decay)

\* WarmUpCallback.__init__ (lines 994-1008)
WarmUpInit(args) ==
    [warmup_steps |-> args.steps,
     decay        |-> IF args.decay = <<>> THEN args.steps ELSE args.decay[1],
     state        |-> [steps   |-> 0,
                       base_lr |-> IF args.base_lr = <<>> THEN <<>>
                                   ELSE <<Rate(args.base_lr[1])>>],
     invsqrt      |-> args.invsqrt]

WarmUpArgs ==
    [steps   : 1..MaxWarmup,
     base_lr : {<<>>} \cup {<<v>> : v \in 1..MaxRate},
     invsqrt : BOOLEAN,
     decay   : {<<>>} \cup {<<d>> : d \in 0..MaxDecay}]

\* a fresh callback beside an optimizer whose rate configure_optimizers set
InitWarmup ==
    /\ pc = "training"
    /\ cfg = None /\ x = None
    /\ n_timesteps = None /\ xs_ts = None /\ mask_i = None /\ event_mask_i = None
    /\ keep = None /\ xs_ts_clipped = None /\ y_ts = None /\ y_ts_masks = None
    /\ y_events = None /\ y_events_mask = None
    /\ err = "" /\ xs_feats = None /\ psi = None /\ z = None
    /\ X = None /\ use_temp_cache = FALSE /\ stats = None /\ temp_cache = None
    /\ item = NoItem
    /\ NoLoad
    /\ NoSeed
    /\ model = None
    /\ kwargs \in WarmUpArgs
    /\ callback = WarmUpInit(kwargs)
    /\ \E v \in 1..MaxRate : optimizer = [lr |-> Rate(v), defaults |-> Rate(v)]
    /\ calls = <<>>
    /\ NoAverage
    /\ workers = None

\* self.state['base_lr'] once lines 1038-1039 / 1049-1050 have run
Captured(cb, opt) ==
    IF cb.state.base_lr = <<>> THEN <<opt.lr>> ELSE cb.state.base_lr

\* WarmUpCallback.on_train_batch_start (lines 1021-1052), one optimizer
OnTrainBatchStart ==
    /\ pc = "training"
    /\ Len(calls) < MaxCalls
    /\ LET s    == callback.state.steps
           W    == callback.warmup_steps
           base == Captured(callback, optimizer)
       IN IF s < W
          THEN LET lr == Times(LinearFactor(s, W), base[1])
               IN /\ optimizer' = [optimizer EXCEPT !.lr = lr]
                  /\ callback' = [callback EXCEPT !.state = [steps |-> s + 1, base_lr |-> base]]
                  /\ calls' = Append(calls, [steps |-> s, lr |-> lr, raised |-> FALSE])
                  /\ UNCHANGED <<pc, err>>
          ELSE IF callback.invsqrt
          THEN IF s - W + callback.decay = 0
               THEN \* the division of line 1051 raises after base_lr was captured
                    /\ callback' = [callback EXCEPT !.state.base_lr = base]
                    /\ calls' = Append(calls, [steps |-> s, lr |-> optimizer.lr, raised |-> TRUE])
                    /\ pc' = "crashed" /\ err' = "ZeroDivisionError"
                    /\ UNCHANGED optimizer
               ELSE LET lr == Times(InvSqrtFactor(callback.decay, s, W), base[1])
                    IN /\ optimizer' = [optimizer EXCEPT !.lr = lr]
                       /\ callback' = [callback EXCEPT !.state = [steps |-> s + 1, base_lr |-> base]]
                       /\ calls' = Append(calls, [steps |-> s, lr |-> lr, raised |-> FALSE])
                       /\ UNCHANGED <<pc, err>>
          ELSE \* neither branch of lines 1035 / 1046 is taken
               /\ calls' = Append(calls, [steps |-> s, lr |-> optimizer.lr, raised |-> FALSE])
               /\ UNCHANGED <<pc, err, optimizer, callback>>
    /\ UNCHANGED <<cfg, x, prepVars, xs_feats, psi, z, dataVars, loadVars, ctorVars, seedVars,
                   avgVars, workers>>

NextWarmup == OnTrainBatchStart

SpecWarmup == InitWarmup /\ [][NextWarmup]_vars

\* ------------------------------------------------------- average_models
\* A state_dict maps each key to a tensor, kept as its dtype and one value.
\* The model has floating-point parameters and int64 buffers (the
\* embedding keys of lines 447-448, BatchNorm1d's num_batches_tracked).
SdKeys == {"head.weight", "num_batches_tracked"}

Dtype(k) == IF k = "head.weight" THEN "float32" ELSE "int64"

StateDictsOf == [SdKeys -> {Frac(v, 1) : v \in 0..MaxWeight}]

FracAdd(a, b) == Frac(a.num * b.den + b.num * a.den, a.den * b.den)

\* sum(sd[k] for sd in sds), line 1143: the integer 0 plus every tensor
RECURSIVE SumOver(_, _)
SumOver(sds, k) ==
    IF sds = <<>> THEN Frac(0, 1)
    ELSE FracAdd(SumOver(SubSeq(sds, 1, Len(sds) - 1), k), sds[Len(sds)][k])

\* averaged[k] (line 1143): true division, a floating-point tensor
Averaged_SumOnly(sds, k) == SumOver(sds, k)
Averaged(sds, k) ==
    LET t == SumOver(sds, k) IN Frac(t.num, t.den * Len(sds))

\* load_state_dict copies each entry into the model's own tensor, which
\* keeps its dtype: copy_ into an int64 buffer drops the fraction
CopyInto(k, v) ==
    IF Dtype(k) = "int64" THEN Frac(v.num \div v.den, 1) ELSE v

InitAverage ==
    /\ pc = "fine-tuned"
    /\ cfg = None /\ x = None
    /\ n_timesteps = None /\ xs_ts = None /\ mask_i = None /\ event_mask_i = None
    /\ keep = None /\ xs_ts_clipped = None /\ y_ts = None /\ y_ts_masks = None
    /\ y_events = None /\ y_events_mask = None
    /\ err = "" /\ xs_feats = None /\ psi = None /\ z = None
    /\ X = None /\ use_temp_cache = FALSE /\ stats = None /\ temp_cache = None
    /\ item = NoItem
    /\ NoLoad
    /\ NoCtor
    /\ NoSeed
    /\ NoWarmup
    /\ workers = None
    /\ models \in UNION {[1..n -> StateDictsOf] : n \in 0..MaxModels}
    /\ returned = 0

\* average_models (lines 1127-1146)
AverageModels ==
    /\ pc = "fine-tuned"
    /\ IF models = <<>>
       THEN \* sds[0] of an empty list (line 1142)
            /\ pc' = "failed" /\ err' = "IndexError"
            /\ UNCHANGED avgVars
       ELSE /\ models' = [models EXCEPT ![1] = [k \in SdKeys |-> CopyInto(k, Averaged(models, k))]]
            /\ returned' = 1
            /\ pc' = "averaged"
            /\ UNCHANGED err
    /\ UNCHANGED <<cfg, x, prepVars, xs_feats, psi, z, dataVars, loadVars, ctorVars, seedVars,
                   warmVars, workers>>

NextAverage == AverageModels

SpecAverage == InitAverage /\ [][NextAverage]_vars

\* ------------------------------------------- loader workers and the cache
\* The loaders run num_workers processes (line 1166) that each call
\* __getitem__ on their copy of a dataset; the datasets' temp_cache is a
\* Manager().dict() (line 131), one per dataset, shared by its workers.
\* A call is followed in its three steps: the look-up of lines 157-158,
\* the computation of lines 161-185, the store and return of lines 188-191.
Workers == 1..NumWorkers

\* the cache a call on the dataset of split s uses: that dataset's own
CacheOf_Shared(s) == "train"
CacheOf(s) == s

Idle == [pc |-> "idle", split |-> "", i |-> 0, err |-> "", sample |-> None, hit |-> FALSE]

\* after PhysioNetDataModule(...) and dm.setup() (lines 1166-1167)
InitWorkers ==
    /\ pc = "loading" /\ cfg = None /\ x = None
    /\ n_timesteps = None /\ xs_ts = None /\ mask_i = None /\ event_mask_i = None
    /\ keep = None /\ xs_ts_clipped = None /\ y_ts = None /\ y_ts_masks = None
    /\ y_events = None /\ y_events_mask = None
    /\ err = "" /\ xs_feats = None /\ psi = None /\ z = None
    /\ X \in Worlds
    /\ use_temp_cache \in BOOLEAN
    /\ stats = [s \in Splits |-> SetupStats(X[s])]
    /\ temp_cache = [s \in Splits |-> <<>>]
    /\ item = NoItem
    /\ NoLoad
    /\ NoCtor
    /\ NoSeed
    /\ NoWarmup
    /\ NoAverage
    /\ workers = [w \in Workers |-> Idle]

\* lines 157-158: worker w starts __getitem__(i) on the dataset of split s
WorkerLookup(w, s, i) ==
    /\ pc = "loading"
    /\ workers[w].pc \in {"idle", "done"}
    /\ workers' = [workers EXCEPT ![w] =
            IF use_temp_cache /\ i \in DOMAIN temp_cache[CacheOf(s)]
            THEN [pc |-> "done", split |-> s, i |-> i, err |-> "",
                  sample |-> temp_cache[CacheOf(s)][i], hit |-> TRUE]
            ELSE [pc |-> "miss", split |-> s, i |-> i, err |-> "", sample |-> None, hit |-> FALSE]]
    /\ UNCHANGED <<modelVars, dataVars, loadVars, ctorVars, seedVars, warmVars, avgVars>>

\* lines 161-185: the sample is built from X and the statistics
WorkerCompute(w) ==
    /\ pc = "loading"
    /\ workers[w].pc = "miss"
    /\ LET s == workers[w].split
           i == workers[w].i
       IN workers' = [workers EXCEPT ![w] =
            IF stats[s] = Unset
            THEN [@ EXCEPT !.pc = "done", !.err = "AttributeError"]
            ELSE IF X[s][i].obs = <<>>
            THEN [@ EXCEPT !.pc = "done", !.err = "IndexError"]
            ELSE LET r == Sample(X[s][i], stats[s], NTimesteps)
                 IN [@ EXCEPT !.pc = "computed",
                              !.sample = [x_ts |-> r.x_ts, x_static |-> r.x_static,
                                          bin_ends |-> r.bin_ends, y |-> r.y]]]
    /\ UNCHANGED <<modelVars, dataVars, loadVars, ctorVars, seedVars, warmVars, avgVars>>

\* lines 188-191: the store, if the cache is on, and the return
WorkerStore(w) ==
    /\ pc = "loading"
    /\ workers[w].pc = "computed"
    /\ temp_cache' = IF use_temp_cache
                     THEN [temp_cache EXCEPT ![CacheOf(workers[w].split)] =
                               (workers[w].i :> workers[w].sample) @@ @]
                     ELSE temp_cache
    /\ workers' = [workers EXCEPT ![w].pc = "done"]
    /\ UNCHANGED <<modelVars, loadVars, ctorVars, seedVars, warmVars, avgVars,
                   X, use_temp_cache, stats, item>>

NextWorkers ==
    \E w \in Workers :
        \/ \E s \in Splits : \E i \in DOMAIN X[s] : WorkerLookup(w, s, i)
        \/ WorkerCompute(w)
        \/ WorkerStore(w)

SpecWorkers == InitWorkers /\ [][NextWorkers]_vars

\* ================================================================ claims
Prepped == pc \in {"prepped", "forwarded"} /\ cfg.pretrain

Min(a, b) == IF a < b THEN a ELSE b

\* record b's corrupted rows as they stand before line 635
PreDropout(b) ==
    IF cfg.predict_events THEN MaskEvent(MaskBins(xs_ts[b], mask_i[b]), event_mask_i[b])
    ELSE MaskBins(xs_ts[b], mask_i[b])

\* event type v is a pretraining target of record b: observed in a masked bin
IsTarget(b, v) == \E j \in DOMAIN y_ts_masks[b].rows : y_ts_masks[b].rows[j][v] = 1

\* C1: in multi-step mode every record with n >= 2 real bins has exactly
\* min(k, n) masked bin indices, pairwise distinct and all in 0..n-1.
C1_DistinctMaskedBins ==
    (Prepped /\ cfg.pretrain_masked_steps > 1) =>
        \A b \in Batch :
            n_timesteps[b] >= 2 =>
                /\ Len(mask_i[b].idx) = Min(cfg.pretrain_masked_steps, n_timesteps[b])
                /\ Cardinality(IdxSet(mask_i[b])) = Len(mask_i[b].idx)
                /\ IdxSet(mask_i[b]) \subseteq 0..(n_timesteps[b] - 1)

\* C2 as stated: feature dropout leaves every value / count cell of a
\* pretraining target's column as it was.
C2_TargetsNeverDropped ==
    (Prepped /\ cfg.pretrain_dropout) =>
        \A b \in Batch : \A v \in VarIdx :
            IsTarget(b, v) =>
                \A r \in DOMAIN xs_ts_clipped[b] :
                    /\ xs_ts_clipped[b][r][v] = PreDropout(b)[r][v]
                    /\ xs_ts_clipped[b][r][v + NVars] = PreDropout(b)[r][v + NVars]

\* C2 amended: feature dropout zeroes exactly the value / count cells of
\* the event types that are pretraining targets of the record and whose
\* random keep flag is False, except cells equal to -1; the columns of
\* event types that are not pretraining targets, and the flag column, are
\* never changed.
C2_DropoutOnlyTargets ==
    (Prepped /\ cfg.pretrain_dropout) =>
        \A b \in Batch : \A r \in DOMAIN xs_ts_clipped[b] : \A c \in Cols :
            xs_ts_clipped[b][r][c] =
                IF /\ c # FlagCol
                   /\ IsTarget(b, c % NVars)
                   /\ ~keep[b][c % NVars]
                   /\ PreDropout(b)[r][c] # -1
                THEN 0
                ELSE PreDropout(b)[r][c]

\* a target column with a non-zero cell was zeroed, and a column that is
\* not a target was drawn for dropping and kept
C2_Witness ==
    /\ Prepped /\ cfg.pretrain_dropout
    /\ \E b \in Batch : \E v, w \in VarIdx :
        /\ IsTarget(b, v) /\ ~keep[b][v]
        /\ \E r \in DOMAIN xs_ts_clipped[b] :
              PreDropout(b)[r][v + NVars] > 0 /\ xs_ts_clipped[b][r][v + NVars] = 0
        /\ ~IsTarget(b, w) /\ ~keep[b][w]
        /\ \E r \in DOMAIN xs_ts_clipped[b] : xs_ts_clipped[b][r][w + NVars] > 0

\* C3: once set up, the validation and the test dataset standardize with
\* the statistics of the training split.
C3_TrainStatsEverywhere ==
    \A s \in {"val", "test"} : stats[s] # Unset => stats[s] = SetupStats(X["train"])

\* C4: every observation of a record with at least one observation gets a
\* bin in 0..T-1, and every observation at the last time stamp gets T-1.
C4_LastObservationInLastBin ==
    (item.err = "" /\ ~item.cached) =>
        LET obs == X[item.split][item.i].obs
        IN \A j \in 1..Len(obs) :
            /\ item.bins[j] \in 0..(NTimesteps - 1)
            /\ (obs[j].time = obs[Len(obs)].time => item.bins[j] = NTimesteps - 1)

\* two observations at different times, the last one later than 0
C4_Witness ==
    /\ item.err = "" /\ ~item.cached
    /\ LET obs == X[item.split][item.i].obs
       IN /\ Len(obs) = 2
          /\ 0 < obs[1].time /\ obs[1].time < obs[2].time
          /\ item.bins[1] < NTimesteps - 1
          /\ item.bins[2] = NTimesteps - 1

\* C5: for every record with n < 2 real bins the masked set is exactly
\* the real bins 0..n-1: their rows are zeroed and flagged, no other row is.
C5_ShortRecordMasksRealBins ==
    Prepped =>
        \A b \in Batch :
            n_timesteps[b] < 2 =>
                /\ IdxSet(mask_i[b]) = 0..(n_timesteps[b] - 1)
                /\ \A r \in DOMAIN xs_ts_clipped[b] :
                      (xs_ts_clipped[b][r][FlagCol] = 1) <=> (r < n_timesteps[b])

\* C6: in multi-step mode pretrain_prep_batch returns, for every record
\* whatever its number of real bins, k target rows and k target-mask rows,
\* and the gather of forward has k rows; the rows past the record's masked
\* bins are zero in the gather and all-zero in the target mask.
C6_FixedWidthTargets ==
    (cfg.pretrain /\ cfg.pretrain_masked_steps > 1 /\ pc # "ready") =>
        /\ pc # "failed"
        /\ \A b \in Batch :
            LET k == cfg.pretrain_masked_steps
                nmasked == Cardinality({r \in DOMAIN xs_ts_clipped[b] : xs_ts_clipped[b][r][FlagCol] = 1})
            IN /\ ~y_ts[b].scalar /\ Len(y_ts[b].rows) = k
               /\ ~y_ts_masks[b].scalar /\ Len(y_ts_masks[b].rows) = k
               /\ \A j \in (nmasked + 1)..k : \A v \in VarIdx : y_ts_masks[b].rows[j][v] = 0
               /\ pc = "forwarded" =>
                     /\ Len(z.rows[b + 1]) = k
                     /\ \A j \in (nmasked + 1)..k : z.rows[b + 1][j] = ZeroVec

\* C7: with masked_embed and no bin of a record flagged, the record's
\* representation is the transformed vector of its last real bin.
C7_UnmaskedRecordUsesLastBin ==
    (pc = "forwarded" /\ ~cfg.pretrain /\ cfg.fusion_method = "masked_embed") =>
        \A b \in Batch :
            (\A r \in DOMAIN xs_ts[b] : xs_ts[b][r][FlagCol] # 1) =>
                /\ Len(z.rows) = Cardinality(Batch)
                /\ z.rows[b + 1][1] = Transformed(b, n_timesteps[b] - 1)

\* C8: in single-step configuration the representation has one vector per
\* record, the i-th made of rows of the i-th record, for every fusion method.
C8_OneVectorPerRecord ==
    (pc = "forwarded" /\ ~cfg.pretrain /\ cfg.pretrain_masked_steps = 1) =>
        /\ ~z.squeezed
        /\ Len(z.rows) = Cardinality(Batch)
        /\ \A b \in Batch : \A j \in 1..Len(z.rows[b + 1]) : z.rows[b + 1][j].rec = b

\* the tensor forward was called on
ForwardInput == IF cfg.pretrain THEN xs_ts_clipped ELSE xs_ts

\* C9: in the embedding tensor entering the attention stack every cell of
\* a row whose flag is 1, and every cell whose count is the event-masked
\* sentinel, holds the MASK embedding.
C9_MaskedCellsHoldMask ==
    pc = "forwarded" =>
        \A b \in Batch : \A r \in DOMAIN ForwardInput[b] : \A c \in PsiCols :
            (\/ ForwardInput[b][r][FlagCol] = 1
             \/ (c < NVars /\ ForwardInput[b][r][NVars + c] = -1))
                => psi[b][r][c] = MASK

\* a flagged row, and a sentinel cell in a row that is not flagged
C9_Witness ==
    /\ pc = "forwarded" /\ cfg.pretrain /\ cfg.predict_events
    /\ \E b \in Batch : \E r, q \in DOMAIN xs_ts_clipped[b] :
        /\ xs_ts_clipped[b][r][FlagCol] = 1
        /\ xs_ts_clipped[b][q][FlagCol] = 0
        /\ xs_ts_clipped[b][q][NVars + event_mask_i[b]] = -1
        /\ xs_ts[b][q][NVars + event_mask_i[b]] > 0
        /\ psi[b][q][event_mask_i[b]] = MASK

\* C10: with predict_events, each record of the returned input has exactly
\* one event-type column whose value cells are all 0 and whose count cells
\* are all -1; y_events / y_events_mask are that column's original values
\* and its original counts clipped to {0, 1}; no other count cell is -1
\* and the flag column holds 0 or 1 only.
C10_OneEventColumnMasked ==
    (Prepped /\ cfg.predict_events) =>
        \A b \in Batch :
            LET t == xs_ts_clipped[b]
                full(e) == \A r \in DOMAIN t : t[r][e] = 0 /\ t[r][e + NVars] = -1
                e0 == event_mask_i[b]
            IN /\ {e \in VarIdx : full(e)} = {e0}
               /\ \A r \in DOMAIN t :
                     /\ y_events[b][r] = xs_ts[b][r][e0]
                     /\ y_events_mask[b][r] = Clip(xs_ts[b][r][e0 + NVars], 0, 1)
                     /\ t[r][FlagCol] \in {0, 1}
                     /\ \A v \in VarIdx \ {e0} : t[r][v + NVars] # -1

\* the masked event column was also drawn for feature dropout
C10_Witness ==
    /\ Prepped /\ cfg.predict_events /\ cfg.pretrain_dropout
    /\ \E b \in Batch :
        /\ IsTarget(b, event_mask_i[b]) /\ ~keep[b][event_mask_i[b]]
        /\ \E r \in DOMAIN xs_ts[b] : xs_ts[b][r][event_mask_i[b]] # 0

\* C11 as stated: the static column of every bin row of a record, flagged
\* rows included, holds the static projector's output for that record.
C11_StaticColumnEveryRow ==
    pc = "forwarded" =>
        \A b \in Batch : \A r \in DOMAIN ForwardInput[b] :
            psi[b][r][NVars] = [tab_encoder |-> b]

\* C11 amended: the static column of every bin row whose flag is not 1
\* holds the static projector's output for that record, padding rows
\* included; in a row whose flag is 1 it holds the MASK embedding.
C11_StaticColumnUnlessFlagged ==
    pc = "forwarded" =>
        \A b \in Batch : \A r \in DOMAIN ForwardInput[b] :
            psi[b][r][NVars] =
                IF ForwardInput[b][r][FlagCol] = 1 THEN MASK ELSE [tab_encoder |-> b]

\* a record with a flagged row, a real row that is not flagged and a
\* padding row
C11_Witness ==
    /\ pc = "forwarded"
    /\ \E b \in Batch : \E r, q, w \in DOMAIN ForwardInput[b] :
        /\ ForwardInput[b][r][FlagCol] = 1 /\ psi[b][r][NVars] = MASK
        /\ q < n_timesteps[b] /\ ForwardInput[b][q][FlagCol] = 0
        /\ w >= n_timesteps[b] /\ psi[b][w][NVars] = [tab_encoder |-> b]

\* the index of the synthetic row of record b
RepRow(b) == Rows(ForwardInput[b])

\* C12 as stated: every cell of the synthetic row holds the REPRESENTATION
\* embedding, in every mode.
C12_RepRowAllRepresentation ==
    pc = "forwarded" =>
        \A b \in Batch : \A c \in PsiCols : psi[b][RepRow(b)][c] = REPRESENTATION

\* C12 amended: every cell of the synthetic row holds the REPRESENTATION
\* embedding, except that with predict_events the cell of an event-type
\* column whose count in row 0 is the sentinel -1 (in pretraining, the
\* masked event-type column) holds the MASK embedding.
C12_RepRowExceptMaskedEvent ==
    pc = "forwarded" =>
        \A b \in Batch : \A c \in PsiCols :
            psi[b][RepRow(b)][c] =
                IF cfg.predict_events /\ c < NVars /\ ForwardInput[b][0][NVars + c] = -1
                THEN MASK
                ELSE REPRESENTATION

\* pretraining with an event-type column masked: its cell of the synthetic
\* row holds MASK, another event type's cell holds REPRESENTATION
C12_Witness ==
    /\ pc = "forwarded" /\ cfg.pretrain /\ cfg.predict_events
    /\ \E b \in Batch : \E c \in VarIdx :
        /\ psi[b][RepRow(b)][event_mask_i[b]] = MASK
        /\ c # event_mask_i[b]
        /\ psi[b][RepRow(b)][c] = REPRESENTATION
        /\ psi[b][RepRow(b)][NVars] = REPRESENTATION

\* the keys present in both the saved checkpoint and the model
MatchedKeys == DOMAIN ckpt_file.state_dict \cap DOMAIN model_state_dict

\* C13: after on_load_checkpoint, a matched head entry whose saved shape
\* differs from the model's is the model's freshly initialized value; every
\* other matched entry is the value saved in the checkpoint.
C13_MatchedEntries ==
    pc = "loaded" =>
        \A k \in MatchedKeys :
            checkpoint.state_dict[k] =
                IF StartsWithHead(k) /\ ckpt_file.state_dict[k].shape # model_state_dict[k].shape
                THEN model_state_dict[k]
                ELSE ckpt_file.state_dict[k]

\* a head entry and an encoder entry, both saved with another shape than
\* the model's: the first is replaced, the second is kept as saved
C13_Witness ==
    /\ pc = "loaded"
    /\ \E h, e \in MatchedKeys :
        /\ StartsWithHead(h) /\ ~StartsWithHead(e)
        /\ ckpt_file.state_dict[h].shape # model_state_dict[h].shape
        /\ ckpt_file.state_dict[e].shape # model_state_dict[e].shape
        /\ checkpoint.state_dict[h].data.owner = "model"
        /\ checkpoint.state_dict[e].data.owner = "ckpt"

\* C14: after on_load_checkpoint the key set of the checkpoint's state_dict
\* equals the key set of the model's state_dict.
C14_KeySetsEqual ==
    pc = "loaded" => DOMAIN checkpoint.state_dict = DOMAIN model_state_dict

\* C15: after Model.forward the time-series tensor passed in holds, in its
\* value, count and flag columns, exactly what it held before the call.
C15_ForwardLeavesInput ==
    pc = "forwarded" =>
        \A b \in Batch : \A r \in DOMAIN ForwardInput[b] : \A c \in Cols :
            xs_feats[b][r][c] = Float(ForwardInput[b][r][c])

\* C16: a Model whose d_embedding is not divisible by n_transformer_head
\* is never constructed: Model.__init__ ends in an error.
C16_IndivisibleFailsAtInit ==
    (pc # "new" /\ kwargs.d_embedding % kwargs.n_transformer_head # 0) =>
        /\ pc = "failed"
        /\ model = None

\* C17: with fusion_method 'averaging' the representation of each record is
\* the mean over exactly the record's real bins 0..n-1: neither the
\* synthetic row nor a padding row is averaged in.
C17_AveragingRealBinsOnly ==
    (pc = "forwarded" /\ cfg.fusion_method = "averaging") =>
        \A b \in Batch :
            /\ z.kind = "mean"
            /\ z.rows[b + 1] = [j \in 1..n_timesteps[b] |-> Transformed(b, j - 1)]

\* record b's masked bin index in single-step mode
MaskedBin(b) == mask_i[b].idx[1]

\* single-step mode, a record with n >= 2 real bins: one masked index, in
\* 0..n-1; that row and no other is flagged; the targets are the row's
\* original values and its original counts clipped to {0, 1}
SingleStepIndexAndTargets(b) ==
    /\ mask_i[b].scalar /\ Len(mask_i[b].idx) = 1
    /\ MaskedBin(b) \in 0..(n_timesteps[b] - 1)
    /\ \A r \in DOMAIN xs_ts_clipped[b] :
          (xs_ts_clipped[b][r][FlagCol] = 1) <=> (r = MaskedBin(b))
    /\ y_ts[b].scalar /\ y_ts_masks[b].scalar
    /\ \A v \in VarIdx :
          /\ y_ts[b].rows[1][v] = xs_ts[b][MaskedBin(b)][v]
          /\ y_ts_masks[b].rows[1][v] = Clip(xs_ts[b][MaskedBin(b)][NVars + v], 0, 1)

\* C18 as stated: in single-step mode every record with n >= 2 real bins has
\* exactly one masked bin index, in 0..n-1; exactly that row of the returned
\* input is flagged and all its value and count cells are 0; the targets
\* are the row's original values and its original counts as presence.
C18_SingleStepRowZeroed ==
    (Prepped /\ cfg.pretrain_masked_steps = 1) =>
        \A b \in Batch :
            n_timesteps[b] >= 2 =>
                /\ SingleStepIndexAndTargets(b)
                /\ \A c \in 0..(2 * NVars - 1) : xs_ts_clipped[b][MaskedBin(b)][c] = 0

\* C18 amended: as C18, except that with predict_events the count cell of
\* the masked event-type column of that row holds the sentinel -1 like the
\* rest of that column; every other value and count cell of the row is 0.
C18_SingleStepRowMasked ==
    (Prepped /\ cfg.pretrain_masked_steps = 1) =>
        \A b \in Batch :
            n_timesteps[b] >= 2 =>
                /\ SingleStepIndexAndTargets(b)
                /\ \A c \in 0..(2 * NVars - 1) :
                      xs_ts_clipped[b][MaskedBin(b)][c] =
                          IF cfg.predict_events /\ c = event_mask_i[b] + NVars THEN -1 ELSE 0

\* a record with n >= 2 whose masked bin is not the first and held an
\* observation, next to a record of one bin
C18_Witness ==
    /\ Prepped /\ cfg.pretrain_masked_steps = 1 /\ cfg.predict_events
    /\ \E b, a \in Batch :
        /\ n_timesteps[b] >= 2 /\ n_timesteps[a] = 1
        /\ mask_i[b].idx[1] > 0
        /\ \E v \in VarIdx :
              /\ xs_ts[b][mask_i[b].idx[1]][v] # 0
              /\ y_ts[b].rows[1][v] # 0
              /\ y_ts_masks[b].rows[1][v] = 1
              /\ xs_ts_clipped[b][mask_i[b].idx[1]][v] = 0

\* C19: feature dropout treats the two halves of an event-type column
\* alike: in every row, a count cell that dropout set to 0 has its value
\* cell at 0, and a value cell that dropout set to 0 has its count cell at
\* 0, the event-masked sentinel count being the only cell exempt.
C19_DropoutHalvesAgree ==
    (Prepped /\ cfg.pretrain_dropout) =>
        \A b \in Batch : \A v \in VarIdx : \A r \in DOMAIN xs_ts_clipped[b] :
            LET before == PreDropout(b)[r]
                after == xs_ts_clipped[b][r]
                sentinel == cfg.predict_events /\ v = event_mask_i[b]
            IN /\ (before[v + NVars] # 0 /\ ~sentinel /\ after[v + NVars] = 0)
                     => after[v] = 0
               /\ (before[v] # 0 /\ after[v] = 0)
                     => (after[v + NVars] = 0 \/ sentinel)

\* C20: two instances constructed with the same seed and fed the same
\* batches choose, at every step both have taken, the same masked bins, the
\* same masked event-type column and the same dropout mask, and whenever
\* they have taken the same number of steps their generators are in the
\* same state; the process-wide generator is never drawn from.
C20_SameSeedSameCorruption ==
    pc = "seeded" =>
        /\ torch_rng = DefaultRng(GlobalSeed)
        /\ \A i, j \in Instances :
            instances[i].seed = instances[j].seed =>
                /\ \A t \in 1..Min(Len(instances[i].calls), Len(instances[j].calls)) :
                      instances[i].calls[t] = instances[j].calls[t]
                /\ Len(instances[i].calls) = Len(instances[j].calls)
                      => instances[i].rng = instances[j].rng

\* both instances, with one seed, have run FeedLen steps that drew masked
\* bins, an event column and a dropout mask, the second step not repeating
\* the first
C20_Witness ==
    /\ pc = "seeded" /\ cfg.predict_events /\ cfg.pretrain_dropout
    /\ instances[1].seed = instances[2].seed
    /\ Len(instances[1].calls) = FeedLen /\ Len(instances[2].calls) = FeedLen
    /\ instances[1].calls[1].err = "" /\ instances[1].calls[FeedLen].err = ""
    /\ instances[1].calls[1] # instances[1].calls[FeedLen]
    /\ feed[1] = feed[FeedLen]

\* the record holds at least one non-missing time-series value at a known
\* time
Usable(rec) ==
    \E j \in 1..Len(rec.obs) : \E f \in VarIdx : rec.obs[j].vals[f] # NaN

\* C21: __getitem__ on a record with no usable observation ends in an
\* error: no sample is returned and nothing is stored in the cache for it.
C21_NoObservationsFailFast ==
    (item.err # "no call" /\ ~Usable(X[item.split][item.i])) =>
        /\ item.err # ""
        /\ item.i \notin DOMAIN temp_cache[item.split]

\* C22: after on_load_checkpoint with freeze_encoder every parameter
\* outside the prediction head has requires_grad = False and every head
\* parameter is as trainable as the constructor left it; without
\* freeze_encoder no parameter's requires_grad has changed.
C22_FreezeAllButHead ==
    pc = "loaded" =>
        \A n \in DOMAIN requires_grad :
            requires_grad[n] = (~cfg.freeze_encoder \/ n.module = "head")

\* a frozen load that left the head trainable and the encoder not
C22_Witness ==
    /\ pc = "loaded" /\ cfg.freeze_encoder
    /\ \E h, e \in DOMAIN requires_grad :
        /\ h.module = "head" /\ requires_grad[h]
        /\ e.module = "tab_encoder" /\ ~requires_grad[e]
    /\ \E q \in 1..Len(stdout) : stdout[q].msg = "Skip freezing:"

\* the observations of event type v that the last call put in bin r
ObservedIn(r, v) ==
    LET obs == X[item.split][item.i].obs
    IN {j \in 1..Len(obs) : item.bins[j] = r /\ obs[j].vals[v] # NaN}

\* C23: in the grid __getitem__ builds, the count of each (bin, event
\* type) is the number of non-missing observations of that type assigned
\* to the bin; a cell without observation holds value 0 and count 0; an
\* event type observed in the record has count >= 1 in some bin.
C23_CountsAreObservations ==
    (item.err = "" /\ ~item.cached) =>
        LET g == item.sample.x_ts
            obs == X[item.split][item.i].obs
        IN /\ \A r \in DOMAIN g : \A v \in VarIdx :
                /\ g[r][NVars + v] = Cardinality(ObservedIn(r, v))
                /\ ObservedIn(r, v) = {} => (g[r][v] = ZeroVal /\ g[r][NVars + v] = 0)
           /\ \A v \in VarIdx :
                (\E j \in 1..Len(obs) : obs[j].vals[v] # NaN)
                    => \E r \in DOMAIN g : g[r][NVars + v] >= 1

\* two observations of one event type in one bin, and an empty cell
C23_Witness ==
    /\ item.err = "" /\ ~item.cached
    /\ \E r, q \in DOMAIN item.sample.x_ts : \E v, w \in VarIdx :
        /\ Cardinality(ObservedIn(r, v)) = 2
        /\ item.sample.x_ts[r][NVars + v] = 2
        /\ ObservedIn(q, w) = {}
        /\ item.sample.x_ts[q][NVars + w] = 0

\* the index forward looked up for the count cell of event type v in row r
\* of record b
LookedUp(b, r, v) == xs_feats[b][r][NVars + v].n_obs_embedding

\* C24: the index looked up in the observation-count embedding for a cell
\* of count c is min(max(c, 0), 15) and lies in 0..15, for counts above 15
\* and for the sentinel -1 alike.
C24_CountIndexInRange ==
    pc = "forwarded" =>
        \A b \in Batch : \A r \in DOMAIN ForwardInput[b] : \A v \in VarIdx :
            /\ LookedUp(b, r, v) = Min(Max(ForwardInput[b][r][NVars + v], 0), 15)
            /\ LookedUp(b, r, v) \in 0..15

\* a count of 16, a sentinel -1 and a count of 1 were looked up
C24_Witness ==
    /\ pc = "forwarded" /\ cfg.pretrain
    /\ \E b, a \in Batch :
        \E r \in DOMAIN xs_ts_clipped[b], q \in DOMAIN xs_ts_clipped[a] : \E v, w \in VarIdx :
            /\ xs_ts_clipped[b][r][NVars + v] = 16 /\ LookedUp(b, r, v) = 15
            /\ xs_ts_clipped[a][q][NVars + w] = -1 /\ LookedUp(a, q, w) = 0
    /\ \E b \in Batch : \E r \in DOMAIN xs_ts_clipped[b] : \E v \in VarIdx :
            xs_ts_clipped[b][r][NVars + v] = 1 /\ LookedUp(b, r, v) = 1

\* C25: for a record with at least one observation, whatever their number,
\* __getitem__ returns a grid of exactly T = n_timesteps rows, each with a
\* value and a count per event type, and exactly T bin ends; the call
\* fails on time[-1] for a record without observation only.
C25_AlwaysTBins ==
    /\ item.err = "" =>
         /\ DOMAIN item.sample.x_ts = 0..(NTimesteps - 1)
         /\ \A r \in DOMAIN item.sample.x_ts :
               DOMAIN item.sample.x_ts[r] = 0..(2 * NVars - 1)
         /\ Len(item.sample.bin_ends) = NTimesteps
    /\ item.err = "IndexError" => X[item.split][item.i].obs = <<>>

\* a record with a single observation came back with T > 1 rows and T bin
\* ends
C25_Witness ==
    /\ item.err = "" /\ ~item.cached
    /\ Len(X[item.split][item.i].obs) = 1
    /\ NTimesteps > 1
    /\ Rows(item.sample.x_ts) = NTimesteps
    /\ Len(item.sample.bin_ends) = NTimesteps


\* helpers for the warm-up claims
Warming == pc \in {"training", "crashed"}

\* a <= b as learning rates
RateLeq(a, b) == a.base * a.base * a.sq.num * b.sq.den <= b.base * b.base * b.sq.num * a.sq.den

RateEq(a, b) == RateLeq(a, b) /\ RateLeq(b, a)

\* the rate the schedule names for counter value s over the base rate b
Scheduled(s, b) ==
    LET W == callback.warmup_steps
        d == callback.decay
    IN IF s < W THEN [base |-> b.base, sq |-> [num |-> s * s * b.sq.num, den |-> W * W * b.sq.den]]
       ELSE [base |-> b.base, sq |-> [num |-> d * b.sq.num, den |-> (s - W + d) * b.sq.den]]

\* the calls follow the schedule over the base rate b
FollowsSchedule(b) ==
    /\ callback.state.steps = Len(calls)
    /\ \A j \in 1..Len(calls) :
         /\ calls[j].steps = j - 1
         /\ ~calls[j].raised
         /\ RateEq(calls[j].lr, Scheduled(j - 1, b))
    /\ Len(calls) >= 1 => callback.state.base_lr = <<b>>
    /\ \A j \in 1..(Len(calls) - 1) :
         /\ calls[j + 1].steps < callback.warmup_steps => RateLeq(calls[j].lr, calls[j + 1].lr)
         /\ calls[j].steps >= callback.warmup_steps => RateLeq(calls[j + 1].lr, calls[j].lr)

\* C26 as stated: with invsqrt True, after k calls the counter is k, the
\* call at counter s sets s/W * base_lr for s < W and
\* base_lr * sqrt(decay / (s - W + decay)) for s >= W, base_lr being the
\* optimizer's rate captured at the first call and never changed, and the
\* rate never decreases during warm-up and never increases after it.
C26_ScheduleOverOptimizerRate ==
    (Warming /\ callback.invsqrt) => FollowsSchedule(optimizer.defaults)

\* C26 amended: the same schedule, over the constructor's base_lr when one
\* was given and the optimizer's first-call rate otherwise, for a decay
\* that is left at None or positive.
C26_ScheduleOverBaseRate ==
    (Warming /\ callback.invsqrt /\ callback.decay >= 1) =>
        FollowsSchedule(IF kwargs.base_lr = <<>> THEN optimizer.defaults
                        ELSE Rate(kwargs.base_lr[1]))

\* a callback given a base_lr other than the optimizer's rate has been
\* called through warm-up and two steps of the decay
C26_Witness ==
    /\ Warming /\ callback.invsqrt /\ callback.decay >= 1
    /\ kwargs.base_lr # <<>> /\ Rate(kwargs.base_lr[1]) # optimizer.defaults
    /\ Len(calls) >= callback.warmup_steps + 2

\* C28: with invsqrt True or False, the first call made with the counter
\* at W leaves the optimizer at base_lr, not at (W-1)/W * base_lr.
C28_FullRateAfterWarmup ==
    Warming =>
        \A j \in 1..Len(calls) :
            (calls[j].steps = callback.warmup_steps
               /\ (j = 1 \/ calls[j - 1].steps < callback.warmup_steps)) =>
                RateEq(calls[j].lr, callback.state.base_lr[1])

\* the exact mean of entry k over the list as it stands
MeanOf(k) ==
    LET RECURSIVE Tot(_)
        Tot(n) == IF n = 0 THEN Frac(0, 1) ELSE FracAdd(Tot(n - 1), models[n][k])
        t == Tot(Len(models))
    IN Frac(t.num, t.den * Len(models))

AveragingStep == pc = "fine-tuned" /\ pc' = "averaged"

\* C27 as stated: average_models on a non-empty list returns the first
\* model, every state entry of which equals the arithmetic mean of that
\* entry over the list; every other model is unchanged, and a one-model
\* list leaves the model's weights unchanged.
C27_EveryEntryIsMean ==
    [][AveragingStep =>
         /\ returned' = 1
         /\ \A k \in SdKeys : models'[1][k] = MeanOf(k)
         /\ \A m \in 2..Len(models) : models'[m] = models[m]
         /\ Len(models') = Len(models)
         /\ Len(models) = 1 => models' = models]_vars

\* C27 amended: every floating-point entry of the first model is the mean;
\* an int64 entry is the mean with its fraction dropped.
C27_FloatEntriesAreMean ==
    [][AveragingStep =>
         /\ returned' = 1
         /\ \A k \in SdKeys :
              IF Dtype(k) = "int64"
              THEN models'[1][k] = Frac(MeanOf(k).num \div MeanOf(k).den, 1)
              ELSE models'[1][k] = MeanOf(k)
         /\ \A m \in 2..Len(models) : models'[m] = models[m]
         /\ Len(models') = Len(models)
         /\ Len(models) = 1 => models' = models]_vars

\* two models that differ in a weight and in an int64 buffer were averaged
\* and the first now holds a weight neither of them had
C27_Witness ==
    /\ pc = "averaged" /\ Len(models) = 2 /\ returned = 1
    /\ models[1]["head.weight"].den = 2
    /\ models[1]["num_batches_tracked"] # models[2]["num_batches_tracked"]

\* C29: in multi-step pretraining, for every record and position j, the
\* j-th target row built by pretrain_prep_batch and the j-th row of
\* forward's masked-embedding gather refer to the same bin, whatever the
\* order in which the masked bins were sampled.
C29_TargetsFaceTheirBins ==
    (pc = "forwarded" /\ cfg.pretrain /\ cfg.pretrain_masked_steps > 1) =>
        \A b \in Batch :
            \A j \in 1..Len(mask_i[b].idx) :
                /\ j <= Len(z.rows[b + 1])
                /\ z.rows[b + 1][j] = Transformed(b, mask_i[b].idx[j])

\* what __getitem__(i) on split s does with the cache disabled
Uncached(s, i) ==
    IF X[s][i].obs = <<>> THEN [err |-> "IndexError", sample |-> None]
    ELSE LET r == Sample(X[s][i], SetupStats(X[s]), NTimesteps)
         IN [err |-> "",
             sample |-> [x_ts |-> r.x_ts, x_static |-> r.x_static,
                         bin_ends |-> r.bin_ends, y |-> r.y]]

\* every finished call ended as the uncached call does
ReturnsAsUncached ==
    \A w \in Workers :
        workers[w].pc = "done" =>
            LET u == Uncached(workers[w].split, workers[w].i)
            IN /\ workers[w].err = u.err
               /\ u.err = "" => workers[w].sample = u.sample

\* an entry, once stored, is there in the next state with the same content
EntriesKept ==
    \A s \in Splits : \A i \in DOMAIN temp_cache[s] :
        i \in DOMAIN temp_cache'[s] /\ temp_cache'[s][i] = temp_cache[s][i]

\* C30: with use_temp_cache on, whatever the interleaving of the workers'
\* __getitem__ calls, every call for index i returns what the same call
\* returns with the cache off, and a stored entry never changes.
C30_CacheTransparent ==
    /\ [](use_temp_cache => ReturnsAsUncached)
    /\ [][use_temp_cache => EntriesKept]_vars

\* a worker was served from the cache while the other, which missed on
\* the same item before the entry was stored, is about to store it again
C30_Witness ==
    /\ pc = "loading" /\ use_temp_cache
    /\ \E w, v \in Workers :
         /\ w # v
         /\ workers[w].pc = "done" /\ workers[w].hit
         /\ workers[v].pc = "computed"
         /\ workers[v].split = workers[w].split /\ workers[v].i = workers[w].i
====
